---- MODULE Spec2Model ----
(***************************************************************************)
(* Offline mutation queue and synchronisation protocol of the              *)
(* rebuild60-tracker client: the pendingOps table (src/src/localdb.ts),    *)
(* enqueue / processOp / startAutoSync (src/src/sync.ts) and the remote    *)
(* relational store the sync engine talks to.                              *)
(*                                                                         *)
(* Every `await` of the source is a suspension point: an action of the     *)
(* model runs from one suspension point to the next.                       *)
(***************************************************************************)
EXTENDS Integers, Sequences, FiniteSets, TLC

\* ------------------------------------------------------------------ bounds
MaxOps == 2        \* number of enqueue calls in a behaviour
MaxPasses == 2     \* number of tick() invocations that may be suspended at once
MaxClock == 1      \* Date.now() returns a value in 0..MaxClock
MaxDrains == 2     \* number of tick() invocations in a behaviour that get past the online check

\* --------------------------------------------------------- program constants
\* the closed vocabulary of operation names (PendingOpName)
PendingOpName ==
  { "upsert_daily", "upsert_nutrition", "insert_zone2", "create_workout",
    "insert_exercise", "insert_set", "create_template",
    "insert_template_exercise", "update_template_exercise", "delete_session",
    "delete_set", "renumber_sets", "delete_exercise", "reorder_exercises" }

\* the four forms the status sink receives; n is the N of "Synced (with N retrying)"
StatusInitial == [text |-> "...", n |-> 0]
StatusOffline == [text |-> "Offline/retrying", n |-> 0]
StatusSyncing == [text |-> "Syncing...", n |-> 0]
StatusSynced == [text |-> "Synced", n |-> 0]
StatusRetrying(n) == [text |-> "Synced (with N retrying)", n |-> n]

\* ------------------------------------------------------------------- state
VARIABLES
  queue,      \* localdb.pendingOps: the set of stored PendingOp rows
  nextId,     \* Dexie's ++id autoincrement counter of pendingOps
  remote,     \* the remote relational store: one set of rows per table
  online,     \* navigator.onLine
  stopped,    \* `stopped` of the current startAutoSync closure
  timer,      \* TRUE while the setInterval handle h is armed
  passes,     \* the suspended invocations of tick(), one record per slot
  status,     \* last value handed to setStatus
  issued,     \* history: the payloads handed to enqueue so far
  drains,     \* history: number of tick() invocations that got past the online check
  applied,    \* history: ids of operations whose remote calls all took effect in one dispatch
  mirror,     \* the local mirror: localSessions, localExercises, localSets
  acts,       \* the suspended handlers of user actions, one record per slot
  openSessionId, \* React state openSessionId of the App component ("" is null)
  exercises,  \* React state exercises: the exercise rows of the open session as last read
  uuids,      \* history: the ids uuid() has returned
  crashes,    \* history: number of times the page was closed with a handler suspended
  starts      \* history: number of user actions invoked

\* the state of the application: the local mirror and its user actions
appVars == <<mirror, acts, openSessionId, exercises, uuids, crashes, starts>>

\* the queue, and the state of the sync engine and of the remote store
queueVars == <<queue, nextId, issued>>
syncVars == <<remote, online, stopped, timer, passes, status, drains, applied>>

vars == <<queue, nextId, remote, online, stopped, timer, passes, status, issued, drains, applied,
          mirror, acts, openSessionId, exercises, uuids, crashes, starts>>

\* ------------------------------------------------------------ remote store
\* Tables are sets of rows; a row is the payload that was inserted.
EmptyRemote ==
  [ daily_logs |-> {}, nutrition_logs |-> {}, zone2_sessions |-> {},
    workout_sessions |-> {}, workout_exercises |-> {}, workout_sets |-> {},
    workout_templates |-> {}, workout_template_exercises |-> {} ]

\* number of rows zone2_sessions may hold (its rows get server-assigned ids)
MaxZone2 == 2

\* insert: a row whose primary key exists is rejected (unique violation), the table is unchanged
RemoteInsert(r, table, row) ==
  IF \E x \in r[table] : x.id = row.id THEN r
  ELSE [r EXCEPT ![table] = @ \cup {row}]

\* insert into zone2_sessions: the payload has no id, the server assigns the next one
RemoteInsertZone2(r, row) ==
  LET n == Cardinality(r.zone2_sessions)
  IN [r EXCEPT !.zone2_sessions =
        @ \cup {[id |-> n + 1, user_id |-> row.user_id, day_date |-> row.day_date,
                 minutes |-> row.minutes]}]

\* upsert with onConflict "user_id,day_date": replace the row with the same natural key
RemoteUpsertByDay(r, table, row) ==
  [r EXCEPT ![table] =
     {x \in @ : ~(x.user_id = row.user_id /\ x.day_date = row.day_date)} \cup {row}]

\* upsert with onConflict "id"
RemoteUpsertById(r, table, row) ==
  [r EXCEPT ![table] = {x \in @ : x.id # row.id} \cup {row}]

\* delete().eq(col, val): rows that do not match stay; deleting nothing is not an error
RemoteDeleteEq(r, table, col, val) ==
  [r EXCEPT ![table] = {x \in @ : x[col] # val}]

\* delete().in(col, vals)
RemoteDeleteIn(r, table, col, vals) ==
  [r EXCEPT ![table] = {x \in @ : x[col] \notin vals}]

\* update({col: val}).eq("id", id): an absolute assignment; no matching row is not an error
RemoteUpdateById(r, table, id, col, val) ==
  [r EXCEPT ![table] =
     {IF x.id = id THEN [x EXCEPT ![col] = val] ELSE x : x \in @}]

\* select("id").eq(col, val)
RemoteSelectIds(r, table, col, val) ==
  {x.id : x \in {y \in r[table] : y[col] = val}}

\* ------------------------------------------------------------ queue helpers
\* Dexie index order of pendingOps.orderBy("createdAt"): by createdAt, then by primary key
Before(a, b) ==
  \/ a.createdAt < b.createdAt
  \/ a.createdAt = b.createdAt /\ a.id < b.id

RECURSIVE SortByCreatedAt_Desc(_)
\* the rows in descending index order
SortByCreatedAt_Desc(S) ==
  IF S = {} THEN <<>>
  ELSE LET m == CHOOSE x \in S : \A y \in S : x = y \/ Before(y, x)
       IN <<m>> \o SortByCreatedAt_Desc(S \ {m})

RECURSIVE SortByCreatedAt(_)
\* orderBy("createdAt").toArray()
SortByCreatedAt(S) ==
  IF S = {} THEN <<>>
  ELSE LET m == CHOOSE x \in S : \A y \in S : x = y \/ Before(x, y)
       IN <<m>> \o SortByCreatedAt(S \ {m})

\* an add that replaces what the table holds
QueueAdd_Overwrite(q, id, t, op, payload) ==
  { [id |-> id, createdAt |-> t, op |-> op, payload |-> payload,
     status |-> "queued", lastError |-> ""] }

\* pendingOps.add(row): the store assigns the next autoincrement id
QueueAdd(q, id, t, op, payload) ==
  q \cup { [id |-> id, createdAt |-> t, op |-> op, payload |-> payload,
            status |-> "queued", lastError |-> ""] }

\* a delete that removes nothing
QueueDelete_Noop(q, id) == q

\* a delete that clears the table
QueueDelete_All(q, id) == {}

\* pendingOps.delete(id)
QueueDelete(q, id) == {x \in q : x.id # id}

\* an update that records the message but leaves the status
QueueUpdate_OnlyError(q, id, msg) ==
  { IF x.id = id THEN [x EXCEPT !.lastError = msg] ELSE x : x \in q }

\* an update that also stamps the row with a new createdAt
QueueUpdate_Restamp(q, id, msg) ==
  { IF x.id = id THEN [x EXCEPT !.status = "retry", !.lastError = msg, !.createdAt = @ + 1]
    ELSE x : x \in q }

\* an update that keeps the first message a row was given
QueueUpdate_KeepFirst(q, id, msg) ==
  { IF x.id = id
      THEN [x EXCEPT !.status = "retry", !.lastError = IF @ = "" THEN msg ELSE @]
    ELSE x : x \in q }

\* pendingOps.update(id, {status: "retry", lastError}): no row with that id changes nothing
QueueUpdate(q, id, msg) ==
  { IF x.id = id THEN [x EXCEPT !.status = "retry", !.lastError = msg] ELSE x : x \in q }

QueueIds == {x.id : x \in queue}

\* what tick() reads of the rows of its snapshot: id, op and payload (createdAt is
\* kept as the key the rows were ordered by); status and lastError are never read
ReadItems(rows) ==
  [i \in 1..Len(rows) |->
     [id |-> rows[i].id, createdAt |-> rows[i].createdAt, op |-> rows[i].op,
      payload |-> rows[i].payload]]

\* ---------------------------------------------------------------- processOp
HasField(p, f) == f \in DOMAIN p

\* a check that rejects the deletes that do carry their id
Precheck_Inverted(item) ==
  LET p == item.payload IN
  CASE item.op = "delete_set" /\ HasField(p, "set_id") -> "delete_set missing set_id"
    [] item.op = "delete_exercise" /\ HasField(p, "exercise_id") -> "delete_exercise missing exercise_id"
    [] item.op = "delete_session" /\ HasField(p, "session_id") -> "delete_session missing session_id"
    [] item.op \notin PendingOpName -> "Unknown op"
    [] OTHER -> ""

\* a processOp that checks nothing but the name of the operation
Precheck_OnlyUnknown(item) ==
  IF item.op \notin PendingOpName THEN "Unknown op" ELSE ""

\* `!payload?.f`: the field is missing, or holds the empty string
Falsy(p, f) == ~HasField(p, f) \/ p[f] = ""

\* the synchronous throws of processOp, raised before any remote call ("" = none)
Precheck(item) ==
  LET p == item.payload IN
  CASE item.op = "delete_set" /\ Falsy(p, "set_id") -> "delete_set missing set_id"
    [] item.op = "delete_exercise" /\ Falsy(p, "exercise_id") -> "delete_exercise missing exercise_id"
    [] item.op = "delete_session" /\ Falsy(p, "session_id") -> "delete_session missing session_id"
    [] item.op \notin PendingOpName -> "Unknown op"
    [] OTHER -> ""

\* number of awaited remote calls in the case of processOp that handles the item
NumCalls(item) ==
  CASE item.op = "renumber_sets" ->
         IF HasField(item.payload, "ordered_set_ids") THEN Len(item.payload.ordered_set_ids) ELSE 0
    [] item.op = "reorder_exercises" ->
         IF HasField(item.payload, "ordered_exercise_ids") THEN Len(item.payload.ordered_exercise_ids) ELSE 0
    [] item.op = "delete_exercise" -> 2
    [] item.op = "delete_session" -> 4
    [] OTHER -> 1

\* the call that follows call k (0: processOp returns); delete_session skips the
\* delete of the sets when the select found no exercise
NextCall(item, k, exIds) ==
  LET n == IF item.op = "delete_session" /\ k = 1 /\ exIds = {} THEN 3 ELSE k + 1
  IN IF n <= NumCalls(item) THEN n ELSE 0

\* TRUE for the calls whose returned `error` processOp inspects and rethrows
ChecksError(item) == item.op = "delete_session"

\* a renumbering that moves a row relative to its current number
RenumberSetCall_Relative(r, ids, k) ==
  [r EXCEPT !.workout_sets =
     {IF x.id = ids[k] THEN [x EXCEPT !.set_number = @ + 1] ELSE x : x \in @}]

\* a renumbering that writes the loop index itself
RenumberSetCall_ZeroBased(r, ids, k) ==
  RemoteUpdateById(r, "workout_sets", ids[k], "set_number", k - 1)

\* renumber_sets, iteration i = k - 1: update({ set_number: i + 1 }).eq("id", ids[i])
RenumberSetCall(r, ids, k) ==
  RemoteUpdateById(r, "workout_sets", ids[k], "set_number", k)

\* the remote store after call k of processOp(item.op, item.payload) took effect
ApplyCall(r, item, k, exIds) ==
  LET p == item.payload IN
  CASE item.op = "upsert_daily" -> RemoteUpsertByDay(r, "daily_logs", p)
    [] item.op = "upsert_nutrition" -> RemoteUpsertByDay(r, "nutrition_logs", p)
    [] item.op = "insert_zone2" -> RemoteInsertZone2(r, p)
    [] item.op = "create_workout" -> RemoteInsert(r, "workout_sessions", p)
    [] item.op = "insert_exercise" -> RemoteInsert(r, "workout_exercises", p)
    [] item.op = "insert_set" -> RemoteInsert(r, "workout_sets", p)
    [] item.op = "create_template" -> RemoteInsert(r, "workout_templates", p)
    [] item.op = "insert_template_exercise" -> RemoteInsert(r, "workout_template_exercises", p)
    [] item.op = "update_template_exercise" -> RemoteUpsertById(r, "workout_template_exercises", p)
    [] item.op = "delete_set" -> RemoteDeleteEq(r, "workout_sets", "id", p.set_id)
    [] item.op = "renumber_sets" -> RenumberSetCall(r, p.ordered_set_ids, k)
    [] item.op = "delete_exercise" ->
         IF k = 1 THEN RemoteDeleteEq(r, "workout_sets", "exercise_id", p.exercise_id)
         ELSE RemoteDeleteEq(r, "workout_exercises", "id", p.exercise_id)
    [] item.op = "reorder_exercises" ->
         RemoteUpdateById(r, "workout_exercises", p.ordered_exercise_ids[k], "sort_order", k - 1)
    [] item.op = "delete_session" ->
         CASE k = 1 -> r
           [] k = 2 -> RemoteDeleteIn(r, "workout_sets", "exercise_id", exIds)
           [] k = 3 -> RemoteDeleteEq(r, "workout_exercises", "session_id", p.session_id)
           [] OTHER -> RemoteDeleteEq(r, "workout_sessions", "id", p.session_id)
    [] OTHER -> r

\* exIds after call k resolved with data: the select of delete_session fills it
SelectResult(r, item, k, exIds) ==
  IF item.op = "delete_session" /\ k = 1
  THEN RemoteSelectIds(r, "workout_exercises", "session_id", item.payload.session_id)
  ELSE exIds

RECURSIVE ApplyFrom(_, _, _, _)
\* the remote store after processOp ran from call k to its return with every call taking effect
ApplyFrom(r, item, k, exIds) ==
  IF k = 0 THEN r
  ELSE LET r2 == ApplyCall(r, item, k, exIds)
           ex2 == SelectResult(r, item, k, exIds)
       IN ApplyFrom(r2, item, NextCall(item, k, ex2), ex2)

\* one complete successful processOp(item.op, item.payload)
ProcessOp(r, item) ==
  IF Precheck(item) # "" THEN r
  ELSE ApplyFrom(r, item, IF NumCalls(item) = 0 THEN 0 ELSE 1, {})

\* --------------------------------------------------------- enqueue inputs
\* payloads the application hands to enqueue (src/src/App.tsx: saveQuickLog,
\* addExercise, addSet, deleteSet, deleteSession), over one session S1, one
\* exercise E1 and one set T1
OpInputs ==
  { [op |-> "insert_exercise", payload |-> [id |-> "E1", session_id |-> "S1", sort_order |-> 0]],
    [op |-> "insert_set", payload |-> [id |-> "T1", exercise_id |-> "E1", set_number |-> 1]],
    [op |-> "delete_session", payload |-> [session_id |-> "S1"]] }

\* ------------------------------------------------------------ tick() passes
PassIds == 1..MaxPasses

\* a slot that holds no suspended tick()
IdlePass ==
  [ pc |-> "idle", items |-> <<>>, idx |-> 0, call |-> 0, exIds |-> {},
    allOk |-> TRUE, failed |-> 0, err |-> "", errors |-> 0 ]
\* (allOk is history: every call of the current dispatch took effect so far;
\*  errors is history: the number of operations of the pass whose dispatch met a
\*  failure, thrown by processOp or returned by a remote call)

Active == {p \in PassIds : passes[p].pc # "idle"}

\* the item the pass is processing
Item(ps) == ps.items[ps.idx]

\* `for (const item of items)`: the pass turns to item i: processOp is invoked and
\* runs to its first await (or to its synchronous throw, caught by the inner handler)
BeginItem(ps, i) ==
  LET item == ps.items[i]
      msg == Precheck(item)
      base == [ps EXCEPT !.idx = i, !.exIds = {}, !.allOk = TRUE, !.err = ""]
  IN IF msg # ""
       THEN [base EXCEPT !.pc = "update", !.call = 0, !.err = msg, !.failed = @ + 1,
                         !.allOk = FALSE, !.errors = @ + 1]
     ELSE IF NumCalls(item) = 0
       THEN [base EXCEPT !.pc = "delete", !.call = 0]
     ELSE [base EXCEPT !.pc = "call", !.call = 1]

\* a loop that stops at the first failed item (halt-on-first-failure)
Advance_Halt(ps) ==
  IF ps.pc = "update" \/ ps.idx >= Len(ps.items) THEN IdlePass ELSE BeginItem(ps, ps.idx + 1)

\* the loop after item idx: the next item, or the end of the pass
Advance(ps) ==
  IF ps.idx < Len(ps.items) THEN BeginItem(ps, ps.idx + 1) ELSE IdlePass

\* the status reported after the loop
FinalStatus(ps) ==
  IF ps.failed = 0 THEN StatusSynced ELSE StatusRetrying(ps.failed)

\* status after the pass moved on from item idx
StatusAfter(ps) ==
  IF ps.idx < Len(ps.items) THEN status ELSE FinalStatus(ps)

FreeSlot == CHOOSE p \in PassIds : passes[p].pc = "idle" /\ \A q \in PassIds : q < p => passes[q].pc # "idle"

\* a tick() without the navigator.onLine check
TickBody_NoOnlineCheck(isStopped) ==
  IF isStopped THEN UNCHANGED <<passes, status, drains>>
  ELSE
    /\ status' = StatusSyncing
    /\ passes' = [passes EXCEPT ![FreeSlot] = [IdlePass EXCEPT !.pc = "snapshot"]]
    /\ drains' = drains + 1

\* tick() up to its first await
TickBody(isStopped) ==
  IF isStopped THEN UNCHANGED <<passes, status, drains>>
  ELSE IF ~online THEN
    /\ status' = StatusOffline
    /\ UNCHANGED <<passes, drains>>
  ELSE
    /\ status' = StatusSyncing
    /\ passes' = [passes EXCEPT ![FreeSlot] = [IdlePass EXCEPT !.pc = "snapshot"]]
    /\ drains' = drains + 1

\* the bounds leave room for one more tick() to get past the online check
CanDrain == Active # PassIds /\ drains < MaxDrains

\* ------------------------------------------------------------ local mirror
MaxActs == 2       \* number of user-action handlers that may be suspended at once
MaxCrashes == 1    \* number of times the page is closed with a handler suspended
AppClock == 0      \* Date.now() returns a value in 0..AppClock while user actions run
MaxStarts == 5     \* number of user actions invoked in a behaviour
MaxExercises == 1  \* number of exercise ids drawn before addExercise and a new-session import stop

\* null
NoId == ""

\* the values uuid() can return, by the table they end up in
SessionIds == <<"S1">>
ExerciseIds == <<"E1", "E2">>
SetIds == <<"T1", "T2">>

\* the name typed into the exercise box, and the one exercise of the import plan
ExerciseName == "A"

\* position of a key in the primary-key order of its table
IdRank(id) ==
  LET all == SessionIds \o ExerciseIds \o SetIds
  IN CHOOSE i \in DOMAIN all : all[i] = id

Pool(pool) == {pool[i] : i \in DOMAIN pool}

HasFresh(pool) == \E i \in DOMAIN pool : pool[i] \notin uuids

\* uuid(): an id never returned before
FreshId(pool) ==
  pool[CHOOSE i \in DOMAIN pool :
         pool[i] \notin uuids /\ \A j \in DOMAIN pool : j < i => pool[j] \in uuids]

EmptyMirror == [localSessions |-> {}, localExercises |-> {}, localSets |-> {}]

\* the rows the handlers build
SessionRow(id) == [id |-> id, user_id |-> "U1", day_date |-> "D1"]
ExerciseRow(id, sid, n) == [id |-> id, session_id |-> sid, name |-> ExerciseName, sort_order |-> n]
SetRow(id, eid, n) == [id |-> id, exercise_id |-> eid, set_number |-> n]

\* table.put(row): insert, or replace the row with the same primary key
MirrorPut(m, table, row) ==
  [m EXCEPT ![table] = {x \in @ : x.id # row.id} \cup {row}]

\* table.delete(id)
MirrorDelete(m, table, id) ==
  [m EXCEPT ![table] = {x \in @ : x.id # id}]

\* table.update(id, {col: val}): no row with that key changes nothing
MirrorUpdate(m, table, id, col, val) ==
  [m EXCEPT ![table] = {IF x.id = id THEN [x EXCEPT ![col] = val] ELSE x : x \in @}]

\* table.where({col: val})
MirrorWhere(m, table, col, val) == {x \in m[table] : x[col] = val}

\* the transaction of deleteSession: the sets of the session's exercises, the
\* exercises, the session
DeleteSessionTxn(m, sid) ==
  LET exIds == {x.id : x \in MirrorWhere(m, "localExercises", "session_id", sid)}
  IN [m EXCEPT !.localSets = {x \in @ : x.exercise_id \notin exIds},
               !.localExercises = {x \in @ : x.session_id # sid},
               !.localSessions = {x \in @ : x.id # sid}]

RECURSIVE SortBySetNumber(_)
\* sortBy("set_number") of rows read in primary-key order (the sort is stable)
SortBySetNumber(S) ==
  IF S = {} THEN <<>>
  ELSE LET m == CHOOSE x \in S : \A y \in S :
                  \/ x = y
                  \/ x.set_number < y.set_number
                  \/ x.set_number = y.set_number /\ IdRank(x.id) < IdRank(y.id)
       IN <<m>> \o SortBySetNumber(S \ {m})

\* `for (let i ...) if (s.set_number !== newNum)`: the first position from i on
\* whose row does not carry its position as set_number (0: none)
NextMismatch(rows, i) ==
  LET bad == {j \in i..Len(rows) : rows[j].set_number # j}
  IN IF bad = {} THEN 0 ELSE CHOOSE j \in bad : \A k \in bad : j <= k

\* the suspended handlers
ActIds == 1..MaxActs

IdleAct ==
  [ fn |-> "idle", pc |-> "idle", sessionId |-> NoId, exerciseId |-> NoId, setId |-> NoId,
    sort_order |-> 0, set_number |-> 0, remaining |-> <<>>, idx |-> 0, flag |-> FALSE ]
\* (flag: `merge` of doImport, `openSessionId === sessionId` of deleteSession)

Busy == {a \in ActIds : acts[a].fn # "idle"}

FreeAct == CHOOSE a \in ActIds : acts[a].fn = "idle" /\ \A b \in ActIds : b < a => acts[b].fn # "idle"

\* ------------------------------------------------------------------ actions
Init ==
  /\ queue = {}
  /\ nextId = 1
  /\ remote = EmptyRemote
  /\ online \in BOOLEAN
  /\ stopped = FALSE
  /\ timer = FALSE
  /\ passes = [p \in PassIds |-> IdlePass]
  /\ status = StatusInitial
  /\ issued = {}
  /\ drains = 0
  /\ applied = {}
  /\ mirror = EmptyMirror
  /\ acts = [a \in ActIds |-> IdleAct]
  /\ openSessionId = NoId
  /\ exercises = {}
  /\ uuids = {}
  /\ crashes = 0
  /\ starts = 0

\* the body of enqueue(op, payload): pendingOps.add of a row stamped Date.now() = t
EnqueueRow(in, t) ==
  /\ issued' = issued \cup {in}
  /\ queue' = QueueAdd(queue, nextId, t, in.op, in.payload)
  /\ nextId' = nextId + 1

\* enqueue(op, payload); the application makes up a fresh uuid() for every entity,
\* so no payload is handed to enqueue twice
Enqueue(in, t) ==
  /\ nextId <= MaxOps
  /\ in \notin issued
  /\ EnqueueRow(in, t)
  /\ UNCHANGED <<remote, online, stopped, timer, passes, status, drains, applied>>
  /\ UNCHANGED appVars

\* startAutoSync(setStatus): a new closure, its first tick(), and the interval
StartAutoSync ==
  /\ ~timer
  /\ online => CanDrain
  /\ stopped' = FALSE
  /\ TickBody(FALSE)
  /\ timer' = TRUE
  /\ UNCHANGED <<queue, nextId, remote, online, issued, applied>>
  /\ UNCHANGED appVars

\* the interval fires tick()
TimerTick ==
  /\ timer
  /\ (online /\ ~stopped) => CanDrain
  /\ TickBody(stopped)
  /\ UNCHANGED <<queue, nextId, remote, online, stopped, timer, issued, applied>>
  /\ UNCHANGED appVars

\* a disposer that also abandons the passes in flight
Stop_Cancel ==
  /\ timer
  /\ stopped' = TRUE
  /\ timer' = FALSE
  /\ passes' = [p \in PassIds |-> IdlePass]
  /\ UNCHANGED <<queue, nextId, remote, online, status, issued, drains, applied>>
  /\ UNCHANGED appVars

\* the disposer returned by startAutoSync
Stop ==
  /\ timer
  /\ stopped' = TRUE
  /\ timer' = FALSE
  /\ UNCHANGED <<queue, nextId, remote, online, passes, status, issued, drains, applied>>
  /\ UNCHANGED appVars

\* the host's connectivity signal changes
ToggleOnline ==
  /\ online' = ~online
  /\ UNCHANGED <<queue, nextId, remote, stopped, timer, passes, status, issued, drains, applied>>
  /\ UNCHANGED appVars

\* `await localdb.pendingOps.orderBy("createdAt").toArray()` resolves
Snapshot(p) ==
  /\ passes[p].pc = "snapshot"
  /\ LET items == ReadItems(SortByCreatedAt(queue))
         ps == [passes[p] EXCEPT !.items = items]
     IN IF Len(items) = 0
        THEN /\ status' = StatusSynced
             /\ passes' = [passes EXCEPT ![p] = IdlePass]
        ELSE /\ status' = status
             /\ passes' = [passes EXCEPT ![p] = BeginItem(ps, 1)]
  /\ UNCHANGED <<queue, nextId, remote, online, stopped, timer, issued, drains, applied>>
  /\ UNCHANGED appVars

\* how an awaited remote call can end:
\*   "ok"    it took effect and resolved without error
\*   "error" it resolved with {error} and took no effect
\*   "throw" it rejected and took no effect
\*   "lost"  it took effect but the response never arrived: it rejected
Outcomes == {"ok", "error", "throw", "lost"}

TakesEffect(o) == o \in {"ok", "lost"}

\* the message of the exception the inner handler catches
ErrorMessage(o) == IF o = "error" THEN "remote error" ELSE "Failed to fetch"

\* the awaited remote call of pass p ends with outcome o, and processOp runs to its
\* next await, its return or its throw
RemoteResolve(p, o) ==
  LET ps == passes[p]
      item == Item(ps)
      k == ps.call
      thrown == o \in {"throw", "lost"} \/ (o = "error" /\ ChecksError(item))
      ex2 == IF o = "ok" THEN SelectResult(remote, item, k, ps.exIds) ELSE ps.exIds
      ok2 == ps.allOk /\ TakesEffect(o)
      nk == NextCall(item, k, ex2)
      \* every call of this dispatch took effect (the last one possibly with a lost response)
      complete == ok2 /\ nk = 0
      \* the first failure of this dispatch (an ignored {error} clears allOk, any other ends it)
      err2 == IF o # "ok" /\ ps.allOk THEN ps.errors + 1 ELSE ps.errors
  IN
  /\ ps.pc = "call"
  /\ o = "ok" => online
  /\ (item.op = "insert_zone2" /\ TakesEffect(o)) => Cardinality(remote.zone2_sessions) < MaxZone2
  /\ remote' = IF TakesEffect(o) THEN ApplyCall(remote, item, k, ps.exIds) ELSE remote
  /\ passes' = [passes EXCEPT ![p] =
        IF thrown
          THEN [ps EXCEPT !.pc = "update", !.err = ErrorMessage(o), !.failed = @ + 1,
                          !.allOk = ok2, !.errors = err2]
        ELSE IF nk = 0
          THEN [ps EXCEPT !.pc = "delete", !.allOk = ok2, !.exIds = ex2, !.errors = err2]
        ELSE [ps EXCEPT !.call = nk, !.allOk = ok2, !.exIds = ex2, !.errors = err2]]
  /\ applied' = IF complete THEN applied \cup {item.id} ELSE applied
  /\ UNCHANGED <<queue, nextId, online, stopped, timer, status, issued, drains>>
  /\ UNCHANGED appVars

\* `await localdb.pendingOps.delete(item.id)` after processOp returned
DeleteDone(p) ==
  LET ps == passes[p] IN
  /\ ps.pc = "delete"
  /\ queue' = QueueDelete(queue, Item(ps).id)
  /\ passes' = [passes EXCEPT ![p] = Advance(ps)]
  /\ status' = StatusAfter(ps)
  /\ UNCHANGED <<nextId, remote, online, stopped, timer, issued, drains, applied>>
  /\ UNCHANGED appVars

\* `await localdb.pendingOps.update(item.id, {status, lastError})` in the inner handler
UpdateDone(p) ==
  LET ps == passes[p] IN
  /\ ps.pc = "update"
  /\ queue' = QueueUpdate(queue, Item(ps).id, ps.err)
  /\ passes' = [passes EXCEPT ![p] = Advance(ps)]
  /\ status' = StatusAfter(ps)
  /\ UNCHANGED <<nextId, remote, online, stopped, timer, issued, drains, applied>>
  /\ UNCHANGED appVars

Next ==
  \/ \E in \in OpInputs, t \in 0..MaxClock : Enqueue(in, t)
  \/ StartAutoSync
  \/ TimerTick
  \/ Stop
  \/ ToggleOnline
  \/ \E p \in PassIds : Snapshot(p)
  \/ \E p \in PassIds, o \in Outcomes : RemoteResolve(p, o)
  \/ \E p \in PassIds : DeleteDone(p)
  \/ \E p \in PassIds : UpdateDone(p)

Spec == Init /\ [][Next]_vars

\* ------------------------------------------------- the scenario of section 8
\* insert_exercise E1 then insert_set T1 are enqueued while the device is offline;
\* the device then comes online, stays online, and every remote call succeeds
Script ==
  << [op |-> "insert_exercise", payload |-> [id |-> "E1", session_id |-> "S1", sort_order |-> 0]],
     [op |-> "insert_set", payload |-> [id |-> "T1", exercise_id |-> "E1", set_number |-> 1]] >>

InitLive == Init /\ ~online

EnqueueOffline(t) ==
  /\ ~online
  /\ nextId <= Len(Script)
  /\ Enqueue(Script[nextId], t)

GoOnline == ~online /\ ToggleOnline

RemoteOk(p) == RemoteResolve(p, "ok")

NextLive ==
  \/ \E t \in 0..MaxClock : EnqueueOffline(t)
  \/ StartAutoSync
  \/ TimerTick
  \/ Stop
  \/ GoOnline
  \/ \E p \in PassIds : Snapshot(p)
  \/ \E p \in PassIds : RemoteOk(p)
  \/ \E p \in PassIds : DeleteDone(p)

\* the interval keeps firing while it is armed, the application starts the engine
\* again after a stop, and every awaited promise eventually settles
SpecLive ==
  /\ InitLive /\ [][NextLive]_vars
  /\ WF_vars(StartAutoSync)
  /\ WF_vars(TimerTick)
  /\ \A p \in PassIds : WF_vars(Snapshot(p) \/ RemoteOk(p) \/ DeleteDone(p))

\* --------------------------------------------- replay of single operations
\* one payload (or two) per case of processOp, over session S1, exercises E1 E2,
\* sets T1 T2, template P1 and template exercise X1
ReplayItems ==
  { [op |-> "upsert_daily", payload |-> [user_id |-> "U1", day_date |-> "D1", weight_lbs |-> 1]],
    [op |-> "upsert_daily", payload |-> [user_id |-> "U1", day_date |-> "D1", weight_lbs |-> 2]],
    [op |-> "upsert_nutrition", payload |-> [user_id |-> "U1", day_date |-> "D1", calories |-> 1]],
    [op |-> "insert_zone2", payload |-> [user_id |-> "U1", day_date |-> "D1", minutes |-> 1]],
    [op |-> "create_workout", payload |-> [id |-> "S1", user_id |-> "U1", day_date |-> "D1"]],
    [op |-> "insert_exercise", payload |-> [id |-> "E1", session_id |-> "S1", sort_order |-> 0]],
    [op |-> "insert_exercise", payload |-> [id |-> "E2", session_id |-> "S1", sort_order |-> 1]],
    [op |-> "insert_set", payload |-> [id |-> "T1", exercise_id |-> "E1", set_number |-> 1]],
    [op |-> "insert_set", payload |-> [id |-> "T2", exercise_id |-> "E1", set_number |-> 2]],
    [op |-> "create_template", payload |-> [id |-> "P1", user_id |-> "U1"]],
    [op |-> "insert_template_exercise", payload |-> [id |-> "X1", template_id |-> "P1", sort_order |-> 0]],
    [op |-> "update_template_exercise", payload |-> [id |-> "X1", template_id |-> "P1", sort_order |-> 1]],
    [op |-> "delete_set", payload |-> [set_id |-> "T1"]],
    [op |-> "renumber_sets", payload |-> [ordered_set_ids |-> <<"T2">>]],
    [op |-> "renumber_sets", payload |-> [ordered_set_ids |-> <<"T2", "T1">>]],
    [op |-> "delete_exercise", payload |-> [exercise_id |-> "E1"]],
    [op |-> "reorder_exercises", payload |-> [ordered_exercise_ids |-> <<"E2", "E1">>]],
    [op |-> "delete_session", payload |-> [session_id |-> "S1"]] }

\* the operations that carry a client-generated id or a natural key: every
\* payload but the one of insert_zone2 (saveQuickLog passes no id)
KeyedItems == {it \in ReplayItems : it.op # "insert_zone2"}

\* one complete processOp in which every call takes effect
Replay(it) ==
  /\ it.op = "insert_zone2" => Cardinality(remote.zone2_sessions) < MaxZone2
  /\ remote' = ProcessOp(remote, it)
  /\ UNCHANGED <<queue, nextId, online, stopped, timer, passes, status, issued, drains, applied>>
  /\ UNCHANGED appVars

NextReplay == \E it \in ReplayItems : Replay(it)

SpecReplay == Init /\ [][NextReplay]_vars

\* ------------------------------------------------ cascading deletes, replayed
\* What the queue holds when a delete is drained: the operations of a session
\* with one exercise and one set followed by delete_session (createWorkoutSession,
\* addExercise, addSet, deleteSession), or by delete_exercise (a kind the current
\* handlers never enqueue: it reaches the queue with a restored backup), and
\* addSet followed by deleteSet
CascadeScripts ==
  { << [op |-> "create_workout", payload |-> [id |-> "S1", user_id |-> "U1", day_date |-> "D1"]],
       [op |-> "insert_exercise", payload |-> [id |-> "E1", session_id |-> "S1", sort_order |-> 0]],
       [op |-> "insert_set", payload |-> [id |-> "T1", exercise_id |-> "E1", set_number |-> 1]],
       [op |-> "delete_session", payload |-> [session_id |-> "S1"]] >>,
    << [op |-> "insert_exercise", payload |-> [id |-> "E1", session_id |-> "S1", sort_order |-> 0]],
       [op |-> "insert_set", payload |-> [id |-> "T1", exercise_id |-> "E1", set_number |-> 1]],
       [op |-> "delete_exercise", payload |-> [exercise_id |-> "E1"]] >>,
    << [op |-> "insert_set", payload |-> [id |-> "T1", exercise_id |-> "E1", set_number |-> 1]],
       [op |-> "delete_set", payload |-> [set_id |-> "T1"]],
       [op |-> "renumber_sets", payload |-> [ordered_set_ids |-> <<>>]] >> }

\* the scripts that what was enqueued so far is a prefix of
OpenScripts ==
  {s \in CascadeScripts :
     nextId <= Len(s) /\ issued = {s[i] : i \in 1..(nextId - 1)}}

\* the next operation of a script is enqueued; the wall clock advances between
\* the user actions (Date.now() is the ordinal of the call)
EnqueueScripted ==
  /\ \E s \in OpenScripts : EnqueueRow(s[nextId], nextId)
  /\ UNCHANGED <<remote, online, stopped, timer, passes, status, drains, applied>>
  /\ UNCHANGED appVars

\* the ways a remote call ends while the device stays online
CascadeOutcomes == {"ok", "error", "throw"}

NextCascade ==
  \/ EnqueueScripted
  \/ StartAutoSync
  \/ TimerTick
  \/ \E p \in PassIds : Snapshot(p)
  \/ \E p \in PassIds, o \in CascadeOutcomes : RemoteResolve(p, o)
  \/ \E p \in PassIds : DeleteDone(p)
  \/ \E p \in PassIds : UpdateDone(p)

InitCascade == Init /\ online

SpecCascade == InitCascade /\ [][NextCascade]_vars

\* ------------------------------------------------- faults of the local store
\* a tick() with no outer handler
Handler_NoOuter(pc) ==
  CASE pc \in {"call", "delete"} -> "inner"
    [] OTHER -> "none"

\* the handler of tick() that catches an exception raised at the await the pass
\* is suspended at: the read of the snapshot is inside the outer try only;
\* processOp and pendingOps.delete are inside the inner try; pendingOps.update is
\* in the inner catch block, so what it throws goes to the outer handler
Handler(pc) ==
  CASE pc \in {"call", "delete"} -> "inner"
    [] pc \in {"snapshot", "update"} -> "outer"
    [] OTHER -> "none"

\* the IndexedDB request pass p awaits rejects (it had no effect)
LocalFault(p) ==
  LET ps == passes[p] IN
  /\ ps.pc \in {"snapshot", "delete", "update"}
  /\ CASE Handler(ps.pc) = "inner" ->
            /\ passes' = [passes EXCEPT ![p] =
                  [ps EXCEPT !.pc = "update", !.err = "local store fault", !.failed = @ + 1]]
            /\ status' = status
       [] Handler(ps.pc) = "outer" ->
            /\ passes' = [passes EXCEPT ![p] = IdlePass]
            /\ status' = StatusOffline
       [] OTHER ->
            /\ passes' = [passes EXCEPT ![p] = [ps EXCEPT !.pc = "escaped"]]
            /\ status' = status
  /\ UNCHANGED <<queue, nextId, remote, online, stopped, timer, issued, drains, applied>>
  /\ UNCHANGED appVars

\* the operations of Script are enqueued, the clock advancing between them
EnqueueScript ==
  /\ nextId <= Len(Script)
  /\ EnqueueRow(Script[nextId], nextId)
  /\ UNCHANGED <<remote, online, stopped, timer, passes, status, drains, applied>>
  /\ UNCHANGED appVars

\* a remote call succeeds or rejects
FaultOutcomes == {"ok", "throw"}

NextFault ==
  \/ EnqueueScript
  \/ StartAutoSync
  \/ TimerTick
  \/ \E p \in PassIds : Snapshot(p)
  \/ \E p \in PassIds, o \in FaultOutcomes : RemoteResolve(p, o)
  \/ \E p \in PassIds : DeleteDone(p)
  \/ \E p \in PassIds : UpdateDone(p)
  \/ \E p \in PassIds : LocalFault(p)

SpecFault == InitCascade /\ [][NextFault]_vars

\* ------------------------------------------------------ malformed payloads
\* deletes that lack their id (rows of this kind reach pendingOps with a
\* restored backup; the handlers always pass the id), next to the operations
\* that put the rows they would address into the remote store
MalformedInputs ==
  { [op |-> "delete_set", payload |-> [id |-> "T1"]],
    [op |-> "delete_set", payload |-> [set_id |-> ""]],
    [op |-> "delete_exercise", payload |-> [id |-> "E1"]],
    [op |-> "delete_session", payload |-> [id |-> "S1"]],
    [op |-> "insert_exercise", payload |-> [id |-> "E1", session_id |-> "S1", sort_order |-> 0]],
    [op |-> "insert_set", payload |-> [id |-> "T1", exercise_id |-> "E1", set_number |-> 1]] }

NextMalformed ==
  \/ \E in \in MalformedInputs, t \in 0..MaxClock : Enqueue(in, t)
  \/ StartAutoSync
  \/ TimerTick
  \/ \E p \in PassIds : Snapshot(p)
  \/ \E p \in PassIds, o \in FaultOutcomes : RemoteResolve(p, o)
  \/ \E p \in PassIds : DeleteDone(p)
  \/ \E p \in PassIds : UpdateDone(p)

SpecMalformed == InitCascade /\ [][NextMalformed]_vars

\* ------------------------------------------------------ template operations
\* what createTemplate, addExerciseToTemplate and deleteTemplate hand to enqueue
\* (their writes go to the local template tables, which the model does not keep)
TemplateInputs ==
  { [op |-> "create_template", payload |-> [id |-> "P1", user_id |-> "U1"]],
    [op |-> "insert_template_exercise",
     payload |-> [id |-> "X1", template_id |-> "P1", sort_order |-> 0]],
    [op |-> "delete_template", payload |-> [template_id |-> "P1"]] }

\* the template operations are enqueued and drained while the device is online
\* and every remote call succeeds
NextVocab ==
  \/ \E in \in TemplateInputs, t \in 0..MaxClock : Enqueue(in, t)
  \/ StartAutoSync
  \/ TimerTick
  \/ \E p \in PassIds : Snapshot(p)
  \/ \E p \in PassIds : RemoteOk(p)
  \/ \E p \in PassIds : DeleteDone(p)
  \/ \E p \in PassIds : UpdateDone(p)

SpecVocab == InitCascade /\ [][NextVocab]_vars

\* ---------------------------------------------- user actions (src/src/App.tsx)
\* Each handler is an async function: an action runs it from the resolution of
\* the Dexie request it awaits to the next request it issues.  uuid() does not
\* depend on the state, so a handler draws its ids when it is invoked.

\* fewer than MaxExercises exercise ids were drawn so far
ExerciseBudget == Cardinality(uuids \cap Pool(ExerciseIds)) < MaxExercises

\* a handler is invoked: it takes a free slot
Start(rec) ==
  /\ Busy # ActIds
  /\ starts < MaxStarts
  /\ starts' = starts + 1
  /\ acts' = [acts EXCEPT ![FreeAct] = rec]

\* enqueue(op, payload) resolves: the row is in pendingOps
AppEnqueue(op, payload) ==
  \E t \in 0..AppClock : EnqueueRow([op |-> op, payload |-> payload], t)

\* openSession(sessionId) up to its first await
OpenSessionCall(a, sid) ==
  /\ openSessionId' = sid
  /\ acts' = [acts EXCEPT ![a].pc = "open"]

\* the user picks a session of the list
OpenSession(sid) ==
  /\ \E x \in mirror.localSessions : x.id = sid
  /\ openSessionId # sid
  /\ openSessionId' = sid
  /\ Start([IdleAct EXCEPT !.fn = "openSession", !.pc = "open", !.sessionId = sid])
  /\ UNCHANGED <<mirror, exercises, uuids, crashes>>
  /\ UNCHANGED queueVars
  /\ UNCHANGED syncVars

\* openSession: the read of the session's exercises resolves (setExercises); the
\* reads of their sets follow and change nothing the model keeps
OpenSession_Read(a) ==
  /\ acts[a].pc = "open"
  /\ exercises' = MirrorWhere(mirror, "localExercises", "session_id", acts[a].sessionId)
  /\ acts' = [acts EXCEPT ![a] = IdleAct]
  /\ UNCHANGED <<mirror, openSessionId, uuids, crashes, starts>>
  /\ UNCHANGED queueVars
  /\ UNCHANGED syncVars

\* `await loadTodaySessions()` resolves at the end of createWorkoutSession,
\* doImport (openSession follows) and deleteSession (the handler returns)
LoadTodaySessions(a) ==
  /\ acts[a].pc = "load"
  /\ IF acts[a].fn = "deleteSession"
       THEN /\ acts' = [acts EXCEPT ![a] = IdleAct]
            /\ UNCHANGED openSessionId
       ELSE OpenSessionCall(a, acts[a].sessionId)
  /\ UNCHANGED <<mirror, exercises, uuids, crashes, starts>>
  /\ UNCHANGED queueVars
  /\ UNCHANGED syncVars

\* createWorkoutSession()
CreateWorkoutSession ==
  /\ HasFresh(SessionIds)
  /\ uuids' = uuids \cup {FreshId(SessionIds)}
  /\ Start([IdleAct EXCEPT !.fn = "createWorkoutSession", !.pc = "put",
                           !.sessionId = FreshId(SessionIds)])
  /\ UNCHANGED <<mirror, openSessionId, exercises, crashes>>
  /\ UNCHANGED queueVars
  /\ UNCHANGED syncVars

\* a createWorkoutSession that goes on to enqueue with its put not committed
CreateWorkoutSession_Put_Uncommitted(a) ==
  /\ acts[a].fn = "createWorkoutSession" /\ acts[a].pc = "put"
  /\ acts' = [acts EXCEPT ![a].pc = "enqueue"]
  /\ UNCHANGED <<mirror, openSessionId, exercises, uuids, crashes, starts>>
  /\ UNCHANGED queueVars
  /\ UNCHANGED syncVars

CreateWorkoutSession_Put(a) ==
  /\ acts[a].fn = "createWorkoutSession" /\ acts[a].pc = "put"
  /\ mirror' = MirrorPut(mirror, "localSessions", SessionRow(acts[a].sessionId))
  /\ acts' = [acts EXCEPT ![a].pc = "enqueue"]
  /\ UNCHANGED <<openSessionId, exercises, uuids, crashes, starts>>
  /\ UNCHANGED queueVars
  /\ UNCHANGED syncVars

CreateWorkoutSession_Enqueue(a) ==
  /\ acts[a].fn = "createWorkoutSession" /\ acts[a].pc = "enqueue"
  /\ AppEnqueue("create_workout", SessionRow(acts[a].sessionId))
  /\ acts' = [acts EXCEPT ![a].pc = "load"]
  /\ UNCHANGED <<mirror, openSessionId, exercises, uuids, crashes, starts>>
  /\ UNCHANGED syncVars

\* addExercise()
AddExercise ==
  /\ openSessionId # NoId
  /\ HasFresh(ExerciseIds)
  /\ uuids' = uuids \cup {FreshId(ExerciseIds)}
  /\ Start([IdleAct EXCEPT !.fn = "addExercise", !.pc = "put", !.sessionId = openSessionId,
                           !.exerciseId = FreshId(ExerciseIds),
                           !.sort_order = Cardinality(exercises)])
  /\ UNCHANGED <<mirror, openSessionId, exercises, crashes>>
  /\ UNCHANGED queueVars
  /\ UNCHANGED syncVars

AddExercise_Put(a) ==
  /\ acts[a].fn = "addExercise" /\ acts[a].pc = "put"
  /\ mirror' = MirrorPut(mirror, "localExercises",
                         ExerciseRow(acts[a].exerciseId, acts[a].sessionId, acts[a].sort_order))
  /\ acts' = [acts EXCEPT ![a].pc = "enqueue"]
  /\ UNCHANGED <<openSessionId, exercises, uuids, crashes, starts>>
  /\ UNCHANGED queueVars
  /\ UNCHANGED syncVars

AddExercise_Enqueue(a) ==
  /\ acts[a].fn = "addExercise" /\ acts[a].pc = "enqueue"
  /\ AppEnqueue("insert_exercise",
                ExerciseRow(acts[a].exerciseId, acts[a].sessionId, acts[a].sort_order))
  /\ OpenSessionCall(a, acts[a].sessionId)
  /\ UNCHANGED <<mirror, exercises, uuids, crashes, starts>>
  /\ UNCHANGED syncVars

\* addSet(exerciseId), for an exercise that is displayed (it has a draft)
AddSet(eid) ==
  /\ \E x \in exercises : x.id = eid
  /\ HasFresh(SetIds)
  /\ uuids' = uuids \cup {FreshId(SetIds)}
  /\ Start([IdleAct EXCEPT !.fn = "addSet", !.pc = "read", !.sessionId = openSessionId,
                           !.exerciseId = eid, !.setId = FreshId(SetIds)])
  /\ UNCHANGED <<mirror, openSessionId, exercises, crashes>>
  /\ UNCHANGED queueVars
  /\ UNCHANGED syncVars

\* `existing` is read: nextSetNumber = existing.length + 1
AddSet_Read(a) ==
  /\ acts[a].fn = "addSet" /\ acts[a].pc = "read"
  /\ acts' = [acts EXCEPT ![a].pc = "put",
                          ![a].set_number =
                             Cardinality(MirrorWhere(mirror, "localSets", "exercise_id",
                                                     acts[a].exerciseId)) + 1]
  /\ UNCHANGED <<mirror, openSessionId, exercises, uuids, crashes, starts>>
  /\ UNCHANGED queueVars
  /\ UNCHANGED syncVars

AddSet_Put(a) ==
  /\ acts[a].fn = "addSet" /\ acts[a].pc = "put"
  /\ mirror' = MirrorPut(mirror, "localSets",
                         SetRow(acts[a].setId, acts[a].exerciseId, acts[a].set_number))
  /\ acts' = [acts EXCEPT ![a].pc = "enqueue"]
  /\ UNCHANGED <<openSessionId, exercises, uuids, crashes, starts>>
  /\ UNCHANGED queueVars
  /\ UNCHANGED syncVars

AddSet_Enqueue(a) ==
  /\ acts[a].fn = "addSet" /\ acts[a].pc = "enqueue"
  /\ AppEnqueue("insert_set", SetRow(acts[a].setId, acts[a].exerciseId, acts[a].set_number))
  /\ IF acts[a].sessionId # NoId
       THEN OpenSessionCall(a, acts[a].sessionId)
       ELSE /\ acts' = [acts EXCEPT ![a] = IdleAct]
            /\ UNCHANGED openSessionId
  /\ UNCHANGED <<mirror, exercises, uuids, crashes, starts>>
  /\ UNCHANGED syncVars

\* deleteSet(setId, exerciseId), for a set of an exercise that is displayed
DeleteSet(s) ==
  /\ s \in mirror.localSets
  /\ \E x \in exercises : x.id = s.exercise_id
  /\ Start([IdleAct EXCEPT !.fn = "deleteSet", !.pc = "delete", !.sessionId = openSessionId,
                           !.exerciseId = s.exercise_id, !.setId = s.id])
  /\ UNCHANGED <<mirror, openSessionId, exercises, uuids, crashes>>
  /\ UNCHANGED queueVars
  /\ UNCHANGED syncVars

DeleteSet_Delete(a) ==
  /\ acts[a].fn = "deleteSet" /\ acts[a].pc = "delete"
  /\ mirror' = MirrorDelete(mirror, "localSets", acts[a].setId)
  /\ acts' = [acts EXCEPT ![a].pc = "enqueue"]
  /\ UNCHANGED <<openSessionId, exercises, uuids, crashes, starts>>
  /\ UNCHANGED queueVars
  /\ UNCHANGED syncVars

DeleteSet_Enqueue(a) ==
  /\ acts[a].fn = "deleteSet" /\ acts[a].pc = "enqueue"
  /\ AppEnqueue("delete_set", [set_id |-> acts[a].setId])
  /\ acts' = [acts EXCEPT ![a].pc = "read"]
  /\ UNCHANGED <<mirror, openSessionId, exercises, uuids, crashes, starts>>
  /\ UNCHANGED syncVars

\* the renumbering loop of deleteSet from position i: it stops at the first
\* update it has to await, or goes on to enqueue renumber_sets
RenumberLoop(act, i) ==
  LET j == NextMismatch(act.remaining, i)
  IN IF j = 0 THEN [act EXCEPT !.pc = "renumber", !.idx = 0]
     ELSE [act EXCEPT !.pc = "update", !.idx = j]

\* `remaining` is read, ordered by set_number
DeleteSet_Read(a) ==
  /\ acts[a].fn = "deleteSet" /\ acts[a].pc = "read"
  /\ acts' = [acts EXCEPT ![a] =
        RenumberLoop([acts[a] EXCEPT !.remaining =
                        SortBySetNumber(MirrorWhere(mirror, "localSets", "exercise_id",
                                                    acts[a].exerciseId))], 1)]
  /\ UNCHANGED <<mirror, openSessionId, exercises, uuids, crashes, starts>>
  /\ UNCHANGED queueVars
  /\ UNCHANGED syncVars

\* localSets.update(s.id, { set_number: newNum }) resolves
DeleteSet_Update(a) ==
  /\ acts[a].fn = "deleteSet" /\ acts[a].pc = "update"
  /\ mirror' = MirrorUpdate(mirror, "localSets", acts[a].remaining[acts[a].idx].id,
                            "set_number", acts[a].idx)
  /\ acts' = [acts EXCEPT ![a] = RenumberLoop(acts[a], acts[a].idx + 1)]
  /\ UNCHANGED <<openSessionId, exercises, uuids, crashes, starts>>
  /\ UNCHANGED queueVars
  /\ UNCHANGED syncVars

DeleteSet_Renumber(a) ==
  /\ acts[a].fn = "deleteSet" /\ acts[a].pc = "renumber"
  /\ AppEnqueue("renumber_sets",
                [ordered_set_ids |->
                   [i \in 1..Len(acts[a].remaining) |-> acts[a].remaining[i].id]])
  /\ IF acts[a].sessionId # NoId
       THEN OpenSessionCall(a, acts[a].sessionId)
       ELSE /\ acts' = [acts EXCEPT ![a] = IdleAct]
            /\ UNCHANGED openSessionId
  /\ UNCHANGED <<mirror, exercises, uuids, crashes, starts>>
  /\ UNCHANGED syncVars

\* deleteSession(sessionId), for a session of the list, confirmed by the user
DeleteSession(sid) ==
  /\ \E x \in mirror.localSessions : x.id = sid
  /\ Start([IdleAct EXCEPT !.fn = "deleteSession", !.pc = "txn", !.sessionId = sid,
                           !.flag = (openSessionId = sid)])
  /\ UNCHANGED <<mirror, openSessionId, exercises, uuids, crashes>>
  /\ UNCHANGED queueVars
  /\ UNCHANGED syncVars

\* the "rw" transaction over localSessions, localExercises, localSets commits
DeleteSession_Txn(a) ==
  /\ acts[a].fn = "deleteSession" /\ acts[a].pc = "txn"
  /\ mirror' = DeleteSessionTxn(mirror, acts[a].sessionId)
  /\ acts' = [acts EXCEPT ![a].pc = "enqueue"]
  /\ UNCHANGED <<openSessionId, exercises, uuids, crashes, starts>>
  /\ UNCHANGED queueVars
  /\ UNCHANGED syncVars

DeleteSession_Enqueue(a) ==
  /\ acts[a].fn = "deleteSession" /\ acts[a].pc = "enqueue"
  /\ AppEnqueue("delete_session", [session_id |-> acts[a].sessionId])
  /\ acts' = [acts EXCEPT ![a].pc = "load"]
  /\ IF acts[a].flag
       THEN openSessionId' = NoId /\ exercises' = {}
       ELSE UNCHANGED <<openSessionId, exercises>>
  /\ UNCHANGED <<mirror, uuids, crashes, starts>>
  /\ UNCHANGED syncVars

\* doImport() of a plan with one exercise (ExerciseName) that has one set
DoImport(merge) ==
  /\ merge => openSessionId # NoId
  /\ ~merge => HasFresh(SessionIds) /\ Cardinality(uuids \cap Pool(ExerciseIds)) < MaxExercises
  /\ HasFresh(ExerciseIds) /\ HasFresh(SetIds)
  /\ uuids' = uuids \cup {FreshId(ExerciseIds), FreshId(SetIds)}
                    \cup (IF merge THEN {} ELSE {FreshId(SessionIds)})
  /\ Start([IdleAct EXCEPT !.fn = "doImport", !.flag = merge,
                           !.pc = IF merge THEN "readExercises" ELSE "putSession",
                           !.sessionId = IF merge THEN openSessionId ELSE FreshId(SessionIds),
                           !.exerciseId = FreshId(ExerciseIds),
                           !.setId = FreshId(SetIds)])
  /\ UNCHANGED <<mirror, openSessionId, exercises, crashes>>
  /\ UNCHANGED queueVars
  /\ UNCHANGED syncVars

DoImport_PutSession(a) ==
  /\ acts[a].fn = "doImport" /\ acts[a].pc = "putSession"
  /\ mirror' = MirrorPut(mirror, "localSessions", SessionRow(acts[a].sessionId))
  /\ acts' = [acts EXCEPT ![a].pc = "enqueueSession"]
  /\ UNCHANGED <<openSessionId, exercises, uuids, crashes, starts>>
  /\ UNCHANGED queueVars
  /\ UNCHANGED syncVars

\* create_workout is enqueued; existingExercises is [] and the plan's exercise is new
DoImport_EnqueueSession(a) ==
  /\ acts[a].fn = "doImport" /\ acts[a].pc = "enqueueSession"
  /\ AppEnqueue("create_workout", SessionRow(acts[a].sessionId))
  /\ acts' = [acts EXCEPT ![a].pc = "putExercise", ![a].sort_order = 0]
  /\ UNCHANGED <<mirror, openSessionId, exercises, uuids, crashes, starts>>
  /\ UNCHANGED syncVars

\* existingExercises is read: the plan's exercise is the last one of that name
\* (nameToExerciseId.set overwrites), or a new one with sort_order sortBase
DoImport_ReadExercises(a) ==
  /\ acts[a].fn = "doImport" /\ acts[a].pc = "readExercises"
  /\ LET existing == MirrorWhere(mirror, "localExercises", "session_id", acts[a].sessionId)
         named == {x \in existing : x.name = ExerciseName}
     IN acts' = [acts EXCEPT ![a] =
          IF named # {}
            THEN [@ EXCEPT !.pc = "readSets",
                           !.exerciseId =
                              (CHOOSE x \in named :
                                 \A y \in named : IdRank(y.id) <= IdRank(x.id)).id]
          ELSE [@ EXCEPT !.pc = "putExercise", !.sort_order = Cardinality(existing)]]
  /\ UNCHANGED <<mirror, openSessionId, exercises, uuids, crashes, starts>>
  /\ UNCHANGED queueVars
  /\ UNCHANGED syncVars

DoImport_PutExercise(a) ==
  /\ acts[a].fn = "doImport" /\ acts[a].pc = "putExercise"
  /\ mirror' = MirrorPut(mirror, "localExercises",
                         ExerciseRow(acts[a].exerciseId, acts[a].sessionId, acts[a].sort_order))
  /\ acts' = [acts EXCEPT ![a].pc = "enqueueExercise"]
  /\ UNCHANGED <<openSessionId, exercises, uuids, crashes, starts>>
  /\ UNCHANGED queueVars
  /\ UNCHANGED syncVars

DoImport_EnqueueExercise(a) ==
  /\ acts[a].fn = "doImport" /\ acts[a].pc = "enqueueExercise"
  /\ AppEnqueue("insert_exercise",
                ExerciseRow(acts[a].exerciseId, acts[a].sessionId, acts[a].sort_order))
  /\ acts' = [acts EXCEPT ![a].pc = "readSets"]
  /\ UNCHANGED <<mirror, openSessionId, exercises, uuids, crashes, starts>>
  /\ UNCHANGED syncVars

\* existingSets is read: nextSetNumber = existingSets.length + 1
DoImport_ReadSets(a) ==
  /\ acts[a].fn = "doImport" /\ acts[a].pc = "readSets"
  /\ acts' = [acts EXCEPT ![a].pc = "putSet",
                          ![a].set_number =
                             Cardinality(MirrorWhere(mirror, "localSets", "exercise_id",
                                                     acts[a].exerciseId)) + 1]
  /\ UNCHANGED <<mirror, openSessionId, exercises, uuids, crashes, starts>>
  /\ UNCHANGED queueVars
  /\ UNCHANGED syncVars

DoImport_PutSet(a) ==
  /\ acts[a].fn = "doImport" /\ acts[a].pc = "putSet"
  /\ mirror' = MirrorPut(mirror, "localSets",
                         SetRow(acts[a].setId, acts[a].exerciseId, acts[a].set_number))
  /\ acts' = [acts EXCEPT ![a].pc = "enqueueSet"]
  /\ UNCHANGED <<openSessionId, exercises, uuids, crashes, starts>>
  /\ UNCHANGED queueVars
  /\ UNCHANGED syncVars

DoImport_EnqueueSet(a) ==
  /\ acts[a].fn = "doImport" /\ acts[a].pc = "enqueueSet"
  /\ AppEnqueue("insert_set", SetRow(acts[a].setId, acts[a].exerciseId, acts[a].set_number))
  /\ acts' = [acts EXCEPT ![a].pc = "load"]
  /\ UNCHANGED <<mirror, openSessionId, exercises, uuids, crashes, starts>>
  /\ UNCHANGED syncVars

\* the page is closed (or the process dies) while a handler is suspended, and is
\* opened again: the handlers and the React state are gone, IndexedDB is kept
Crash ==
  /\ crashes < MaxCrashes
  /\ Busy # {}
  /\ crashes' = crashes + 1
  /\ acts' = [a \in ActIds |-> IdleAct]
  /\ openSessionId' = NoId
  /\ exercises' = {}
  /\ UNCHANGED <<mirror, uuids, starts>>
  /\ UNCHANGED queueVars
  /\ UNCHANGED syncVars

NextApp ==
  \/ \E i \in DOMAIN SessionIds : OpenSession(SessionIds[i])
  \/ \E a \in ActIds : OpenSession_Read(a)
  \/ \E a \in ActIds : LoadTodaySessions(a)
  \/ CreateWorkoutSession
  \/ \E a \in ActIds : CreateWorkoutSession_Put(a)
  \/ \E a \in ActIds : CreateWorkoutSession_Enqueue(a)
  \/ ExerciseBudget /\ AddExercise
  \/ \E a \in ActIds : AddExercise_Put(a)
  \/ \E a \in ActIds : AddExercise_Enqueue(a)
  \/ \E i \in DOMAIN ExerciseIds : AddSet(ExerciseIds[i])
  \/ \E a \in ActIds : AddSet_Read(a)
  \/ \E a \in ActIds : AddSet_Put(a)
  \/ \E a \in ActIds : AddSet_Enqueue(a)
  \/ \E s \in mirror.localSets : DeleteSet(s)
  \/ \E a \in ActIds : DeleteSet_Delete(a)
  \/ \E a \in ActIds : DeleteSet_Enqueue(a)
  \/ \E a \in ActIds : DeleteSet_Read(a)
  \/ \E a \in ActIds : DeleteSet_Update(a)
  \/ \E a \in ActIds : DeleteSet_Renumber(a)
  \/ \E i \in DOMAIN SessionIds : DeleteSession(SessionIds[i])
  \/ \E a \in ActIds : DeleteSession_Txn(a)
  \/ \E a \in ActIds : DeleteSession_Enqueue(a)
  \/ \E merge \in BOOLEAN : DoImport(merge)
  \/ \E a \in ActIds : DoImport_PutSession(a)
  \/ \E a \in ActIds : DoImport_EnqueueSession(a)
  \/ \E a \in ActIds : DoImport_ReadExercises(a)
  \/ \E a \in ActIds : DoImport_PutExercise(a)
  \/ \E a \in ActIds : DoImport_EnqueueExercise(a)
  \/ \E a \in ActIds : DoImport_ReadSets(a)
  \/ \E a \in ActIds : DoImport_PutSet(a)
  \/ \E a \in ActIds : DoImport_EnqueueSet(a)
  \/ Crash

\* the application with the sync engine not started (no user is signed in to
\* the remote store yet, or the device stays offline)
InitApp == Init /\ ~online

SpecApp == InitApp /\ [][NextApp]_vars

\* ------------------------------------------ the application with its engine
\* the workout handlers (create session, add exercise, add set, delete set,
\* delete session) run one after the other while the engine drains the queue,
\* one pass at a time; the device stays online and a remote call succeeds or
\* rejects
NextConv ==
  \/ \E a \in ActIds : OpenSession_Read(a)
  \/ \E a \in ActIds : LoadTodaySessions(a)
  \/ Busy = {} /\ CreateWorkoutSession
  \/ \E a \in ActIds : CreateWorkoutSession_Put(a)
  \/ \E a \in ActIds : CreateWorkoutSession_Enqueue(a)
  \/ Busy = {} /\ ExerciseBudget /\ AddExercise
  \/ \E a \in ActIds : AddExercise_Put(a)
  \/ \E a \in ActIds : AddExercise_Enqueue(a)
  \/ Busy = {} /\ \E i \in DOMAIN ExerciseIds : AddSet(ExerciseIds[i])
  \/ \E a \in ActIds : AddSet_Read(a)
  \/ \E a \in ActIds : AddSet_Put(a)
  \/ \E a \in ActIds : AddSet_Enqueue(a)
  \/ Busy = {} /\ \E s \in mirror.localSets : DeleteSet(s)
  \/ \E a \in ActIds : DeleteSet_Delete(a)
  \/ \E a \in ActIds : DeleteSet_Enqueue(a)
  \/ \E a \in ActIds : DeleteSet_Read(a)
  \/ \E a \in ActIds : DeleteSet_Update(a)
  \/ \E a \in ActIds : DeleteSet_Renumber(a)
  \/ Busy = {} /\ \E i \in DOMAIN SessionIds : DeleteSession(SessionIds[i])
  \/ \E a \in ActIds : DeleteSession_Txn(a)
  \/ \E a \in ActIds : DeleteSession_Enqueue(a)
  \/ StartAutoSync
  \/ Active = {} /\ TimerTick
  \/ \E p \in PassIds : Snapshot(p)
  \/ \E p \in PassIds, o \in FaultOutcomes : RemoteResolve(p, o)
  \/ \E p \in PassIds : DeleteDone(p)
  \/ \E p \in PassIds : UpdateDone(p)

SpecConv == InitCascade /\ [][NextConv]_vars

\* --------------------------------------------------- exercises of a session
\* a session is created, exercises are added to it and it is deleted, the
\* handlers overlapping as the user's clicks make them
NextOrder ==
  \/ \E a \in ActIds : OpenSession_Read(a)
  \/ \E a \in ActIds : LoadTodaySessions(a)
  \/ CreateWorkoutSession
  \/ \E a \in ActIds : CreateWorkoutSession_Put(a)
  \/ \E a \in ActIds : CreateWorkoutSession_Enqueue(a)
  \/ AddExercise
  \/ \E a \in ActIds : AddExercise_Put(a)
  \/ \E a \in ActIds : AddExercise_Enqueue(a)
  \/ \E i \in DOMAIN SessionIds : DeleteSession(SessionIds[i])
  \/ \E a \in ActIds : DeleteSession_Txn(a)
  \/ \E a \in ActIds : DeleteSession_Enqueue(a)

SpecOrder == InitApp /\ [][NextOrder]_vars

\* ================================================================== claims

\* the queue row with the given id, for ids in QueueIds
Row(id) == CHOOSE x \in queue : x.id = id

\* entity ids an operation refers to
RefIds(x) ==
  LET p == x.payload IN
  (IF HasField(p, "id") THEN {p.id} ELSE {})
  \cup (IF HasField(p, "session_id") THEN {p.session_id} ELSE {})
  \cup (IF HasField(p, "exercise_id") THEN {p.exercise_id} ELSE {})
  \cup (IF HasField(p, "set_id") THEN {p.set_id} ELSE {})

Related(a, b) == RefIds(a) \cap RefIds(b) # {}

\* C1: at most one drain pass is active at any time (a tick that fires while an
\* earlier tick is suspended starts no second pass).
C1_AtMostOneDrain == Cardinality(Active) <= 1

\* C2: an operation leaves the queue only after its remote application was
\* confirmed successful: every enqueued operation is still queued or has had
\* every one of its remote calls take effect.
C2_RemovedOnlyAfterSuccess ==
  \A id \in 1..(nextId - 1) : id \in QueueIds \/ id \in applied

\* C3: within one pass the snapshot is in ascending createdAt order, ties by
\* ascending id, and the pass works on one operation at a time: when it has
\* turned to the operation at position idx, every earlier operation of the
\* snapshot has been settled (deleted, or marked retry).
C3_DispatchOrder ==
  \A p \in Active :
    LET ps == passes[p] IN
    /\ \A i, j \in 1..Len(ps.items) : i < j => Before(ps.items[i], ps.items[j])
    /\ \A j \in 1..Len(ps.items) :
         j < ps.idx =>
           \/ ps.items[j].id \notin QueueIds
           \/ Row(ps.items[j].id).status = "retry"

C3_Witness ==
  \E p \in Active :
    LET ps == passes[p] IN
    /\ Len(ps.items) = 2 /\ ps.idx = 2 /\ ps.pc = "call"
    /\ ps.items[1].createdAt = ps.items[2].createdAt

C5_AtMostOneAppliedQueued == Cardinality(QueueIds \cap applied) <= 1

\* C5 as amended: when processOp has returned for an operation, the pass deletes
\* that operation from the queue before it turns to its next operation.
C5_DeletedBeforeNext ==
  [][ \A p \in PassIds :
        (passes[p].pc = "delete" /\ passes'[p] # passes[p])
          => Item(passes[p]).id \notin {x.id : x \in queue'} ]_vars

C5_Witness ==
  \E p \in Active :
    LET ps == passes[p] IN
    /\ ps.idx = 2 /\ ps.pc = "call"
    /\ ps.items[1].id \in applied /\ ps.items[1].id \notin QueueIds

\* C6: when the dispatch of an operation fails (processOp throws, or a remote call
\* made for it returns an error), the operation is in the queue afterwards with
\* the retry status and the failure's message as lastError.
C6_FailedStaysRetry ==
  [][ \A p \in PassIds :
        LET ps == passes[p] IN
        ((ps.pc = "update" \/ (ps.pc = "delete" /\ ~ps.allOk)) /\ passes'[p] # ps)
          => \E x \in queue' :
               x.id = Item(ps).id /\ x.status = "retry" /\ x.lastError # "" ]_vars

\* C7: a pass is not cut short by a failure: it turns to the operations of its
\* snapshot one position at a time and ends only after the last one.
C7_SkipAndContinue ==
  [][ \A p \in PassIds :
        LET ps == passes[p] IN
        /\ (passes'[p].pc # "idle" /\ passes'[p].idx # ps.idx) => passes'[p].idx = ps.idx + 1
        /\ (ps.pc \in {"call", "delete", "update"} /\ passes'[p].pc = "idle")
             => ps.idx = Len(ps.items) ]_vars

C7_Witness ==
  \E p \in Active :
    LET ps == passes[p] IN
    /\ ps.failed >= 1 /\ Len(ps.items) = 2 /\ ps.idx = 2 /\ ps.pc = "call"

\* C8: a tick that finds the device offline reports Offline/retrying and changes
\* neither the queue nor the remote store, and starts no pass.
C8_OfflineTick ==
  [][ ((TimerTick /\ ~stopped) \/ StartAutoSync) /\ ~online
        => /\ status' = StatusOffline
           /\ queue' = queue /\ nextId' = nextId
           /\ remote' = remote
           /\ passes' = passes ]_vars

C8_Witness == ~online /\ timer /\ status = StatusOffline /\ queue # {}

\* C9 (scenario, every remote call succeeding): insert_exercise E1 was enqueued
\* before insert_set T1; the drain applies E1 before T1.
C9_ScenarioOrder ==
  \A a, b \in queue :
    (a.op = "insert_exercise" /\ b.op = "insert_set" /\ a.id < b.id /\ b.id \in applied)
      => a.id \in applied

\* the rest of C9: operations enqueued offline are untouched by offline ticks and
\* restarts, and once the device is online they are all applied and removed
C9_OfflineUntouched ==
  [][ ~online' /\ ~online => \A x \in queue : x \in queue' /\ x.status = "queued" ]_vars

C9_EventuallyDrained ==
  online ~> (queue = {} /\ applied = 1..(nextId - 1))

\* C10: applying an operation that carries a client-generated id or a natural key
\* twice leaves the remote store as applying it once does.
C10_IdempotentReplay ==
  \A it \in KeyedItems : ProcessOp(ProcessOp(remote, it), it) = ProcessOp(remote, it)

\* the replayed insert meets its own row, renumbered since
C10_Witness ==
  /\ \E x \in remote.workout_sets : x.id = "T1" /\ x.set_number = 2
  /\ \E x \in remote.workout_exercises : x.id = "E1"
  /\ remote.daily_logs # {}

\* C11: no orphans in the local mirror: every local set refers to an existing
\* local exercise and every local exercise to an existing local session, in
\* every reachable state, handlers suspended at their awaits included.
C11_NoLocalOrphans ==
  /\ \A s \in mirror.localSets : \E e \in mirror.localExercises : e.id = s.exercise_id
  /\ \A e \in mirror.localExercises : \E x \in mirror.localSessions : x.id = e.session_id

\* ids of the exercises that insert_exercise operations put into session sid
IssuedExerciseIds(sid) ==
  {in.payload.id : in \in {i \in issued : i.op = "insert_exercise" /\ i.payload.session_id = sid}}

\* the rows of the remote store that are, or belong to, session sid
RemoteRowsOf(sid) ==
  {x \in remote.workout_sessions : x.id = sid}
    \cup {x \in remote.workout_exercises : x.session_id = sid}
    \cup {x \in remote.workout_sets :
            \/ x.exercise_id \in IssuedExerciseIds(sid)
            \/ \E e \in remote.workout_exercises : e.id = x.exercise_id /\ e.session_id = sid}

\* C12: remote cascade completeness: once delete_session was enqueued for a
\* session (after the operations that built it) and the queue has been drained
\* to empty, the remote store holds no row of that session, whatever remote
\* calls failed and were retried on the way.
C12_RemoteCascadeComplete ==
  \A in \in issued :
    (in.op = "delete_session" /\ queue = {} /\ Active = {})
      => RemoteRowsOf(in.payload.session_id) = {}

\* C13: the remote cascades delete children before parents: when a call of a
\* delete_session or delete_exercise dispatch removes exercise rows, no set of
\* those exercises is left in the remote store, and when it removes the session
\* row, no exercise of that session is left.
C13_ChildrenBeforeParents ==
  [][ \A p \in PassIds :
        LET ps == passes[p]
            goneExercises == {x.id : x \in remote.workout_exercises}
                               \ {x.id : x \in remote'.workout_exercises}
            goneSessions == {x.id : x \in remote.workout_sessions}
                              \ {x.id : x \in remote'.workout_sessions}
        IN (ps.pc = "call" /\ passes'[p] # ps
              /\ Item(ps).op \in {"delete_session", "delete_exercise"})
             => /\ \A x \in remote'.workout_sets : x.exercise_id \notin goneExercises
                /\ \A x \in remote'.workout_exercises : x.session_id \notin goneSessions ]_vars

\* the three deletes of processOp
DeleteOps == {"delete_session", "delete_set", "delete_exercise"}

\* the remote store holds nothing the delete would remove
TargetMissing(item) ==
  LET p == item.payload IN
  CASE item.op = "delete_set" -> \A x \in remote.workout_sets : x.id # p.set_id
    [] item.op = "delete_exercise" ->
         /\ \A x \in remote.workout_exercises : x.id # p.exercise_id
         /\ \A x \in remote.workout_sets : x.exercise_id # p.exercise_id
    [] item.op = "delete_session" ->
         /\ \A x \in remote.workout_sessions : x.id # p.session_id
         /\ \A x \in remote.workout_exercises : x.session_id # p.session_id
    [] OTHER -> FALSE

\* C14: a delete whose target is already missing on the remote store (for
\* delete_session: its select found no exercise either) is a success: each of
\* its calls resolves without error and leaves the remote store unchanged, the
\* dispatch is not counted as failed and does not go to the retry handler, and
\* the operation is deleted from the queue.  (A delete that carries its id is
\* dispatched: nothing is thrown before its first call.)
C14_MissingIsSuccess ==
  [][ \A p \in PassIds :
        LET ps == passes[p] IN
        /\ (passes'[p].pc \notin {"idle", "snapshot"} /\ passes'[p].idx # ps.idx
              /\ Item(passes'[p]).op \in DeleteOps /\ NumCalls(Item(passes'[p])) > 0)
             => passes'[p].pc = "call" /\ passes'[p].failed = ps.failed
        /\ (ps.pc = "call" /\ Item(ps).op \in DeleteOps /\ TargetMissing(Item(ps))
              /\ ps.exIds = {} /\ RemoteResolve(p, "ok"))
             => /\ remote' = remote
                /\ passes'[p].pc \in {"call", "delete"}
                /\ passes'[p].failed = ps.failed
        /\ (ps.pc = "delete" /\ Item(ps).op \in DeleteOps /\ DeleteDone(p))
             => \A x \in queue' : x.id # Item(ps).id ]_vars

\* delete_session of a session nothing of which ever reached the remote store
\* has gone through its calls and is about to be deleted from the queue
C14_Witness ==
  \E p \in Active :
    LET ps == passes[p] IN
    /\ ps.pc = "delete" /\ Item(ps).op = "delete_session" /\ ps.allOk
    /\ ps.failed = 0
    /\ applied \cap {1, 2, 3} = {}
    /\ remote = EmptyRemote

\* every local set_number of the sets of exercise eid, with repetitions
SetNumbers(eid) ==
  LET rows == SortBySetNumber(MirrorWhere(mirror, "localSets", "exercise_id", eid))
  IN [i \in 1..Len(rows) |-> rows[i].set_number]

\* C15: renumbering density: when no addSet, deleteSet or other handler is in
\* progress (and none was cut short), the set_numbers of every exercise are 1..n
\* without gaps or duplicates.
C15_DenseSetNumbers ==
  (Busy = {} /\ crashes = 0)
    => \A i \in DOMAIN ExerciseIds :
         LET nums == SetNumbers(ExerciseIds[i])
         IN \A j \in 1..Len(nums) : nums[j] = j

\* C16: a PendingOperation is immutable except for status and lastError: no
\* step changes the op, payload or createdAt of a row that stays in the queue,
\* and no id is given to another row.
C16_ImmutableOperation ==
  [][ \A x \in queue : \A y \in queue' :
        y.id = x.id => (y.op = x.op /\ y.payload = x.payload /\ y.createdAt = x.createdAt) ]_vars

\* a row whose status and lastError were changed
C16_Witness ==
  \E x \in queue : x.status = "retry" /\ x.lastError # ""

\* C17: at the end of an online pass the status is Synced exactly when no
\* operation of the pass failed, and otherwise "Synced (with N retrying)" with N
\* the number of operations whose dispatch failed in that pass; the sink only
\* receives the four forms.
C17_AggregateStatus ==
  [][ /\ status' \in {status, StatusSynced, StatusSyncing, StatusOffline}
                      \cup {StatusRetrying(n) : n \in 1..MaxOps}
      /\ \A p \in PassIds :
           LET ps == passes[p] IN
           (ps.pc \in {"delete", "update"} /\ ps.idx = Len(ps.items) /\ passes'[p] = IdlePass)
             => status' = IF ps.errors = 0 THEN StatusSynced ELSE StatusRetrying(ps.errors) ]_vars

\* C18 as claimed: a rejected read of the snapshot, delete or update of a queue
\* entry is caught by the outer handler, which reports Offline/retrying and ends
\* the pass.
C18_OuterCatchesLocalFaults ==
  [][ \A p \in PassIds :
        LocalFault(p) => (status' = StatusOffline /\ passes'[p] = IdlePass) ]_vars

\* C18 as amended: no exception leaves tick().  A failure of a remote call, and
\* a rejected pendingOps.delete, are caught by the handler inside the loop: the
\* operation is counted as failed and the pass goes on to mark it retry.  A
\* rejected read of the snapshot or pendingOps.update is caught by the outer
\* handler, which reports Offline/retrying and ends the pass.
C18_NoFailureEscapes ==
  [][ \A p \in PassIds :
        LET ps == passes[p] IN
        /\ passes'[p].pc # "escaped"
        /\ (ps.pc = "call" /\ passes'[p] # ps)
             => passes'[p].pc \in {"call", "delete", "update"} /\ passes'[p].idx = ps.idx
        /\ (LocalFault(p) /\ ps.pc = "delete")
             => /\ passes'[p].pc = "update" /\ passes'[p].idx = ps.idx
                /\ passes'[p].failed = ps.failed + 1
                /\ status' = status
        /\ (LocalFault(p) /\ ps.pc \in {"snapshot", "update"})
             => status' = StatusOffline /\ passes'[p] = IdlePass ]_vars

\* a pass in the inner handler after pendingOps.delete was rejected: the
\* operation was applied remotely and is about to be marked retry
C18_Witness ==
  \E p \in Active :
    LET ps == passes[p] IN
    /\ ps.pc = "update" /\ ps.err = "local store fault"
    /\ Item(ps).id \in applied /\ Item(ps).id \in QueueIds

\* C19: no local-only mutation: when no user action is in progress, every
\* session, exercise and set of the local mirror is in the remote store or has
\* its creating operation in the queue.
C19_MirrorNotAhead ==
  Busy = {} =>
    /\ \A s \in mirror.localSessions :
         \/ \E x \in remote.workout_sessions : x.id = s.id
         \/ \E x \in queue : x.op = "create_workout" /\ x.payload.id = s.id
    /\ \A e \in mirror.localExercises :
         \/ \E x \in remote.workout_exercises : x.id = e.id
         \/ \E x \in queue : x.op = "insert_exercise" /\ x.payload.id = e.id
    /\ \A s \in mirror.localSets :
         \/ \E x \in remote.workout_sets : x.id = s.id
         \/ \E x \in queue : x.op = "insert_set" /\ x.payload.id = s.id

\* C20: enqueue(op, payload) adds exactly one row, with status queued, createdAt
\* the current time and an id greater than every id assigned before; it leaves
\* the other rows, the remote store and the passes as they are; and it can be
\* called whether the device is online or not and whether a pass is in progress
\* or not.
C20_EnqueueAppends ==
  [][ \A in \in OpInputs, t \in 0..MaxClock :
        Enqueue(in, t) =>
          /\ \E x \in queue' :
               /\ x \notin queue /\ queue' = queue \cup {x}
               /\ x.op = in.op /\ x.payload = in.payload
               /\ x.createdAt = t /\ x.status = "queued" /\ x.lastError = ""
               /\ \A y \in queue : y.id < x.id
               /\ \A p \in PassIds : \A i \in 1..Len(passes[p].items) :
                    passes[p].items[i].id < x.id
               /\ \A id \in applied : id < x.id
          /\ remote' = remote /\ passes' = passes /\ status' = status
          /\ online' = online ]_vars

\* an operation was enqueued while the device was offline and a pass was
\* suspended in a remote call: the pass's snapshot does not hold it
C20_Witness ==
  /\ ~online
  /\ \E p \in Active, x \in queue :
       /\ passes[p].pc = "call"
       /\ \A i \in 1..Len(passes[p].items) : passes[p].items[i].id < x.id
       /\ x.status = "queued"

\* ids of the rows of a pass's snapshot
SnapshotIds(ps) == {ps.items[i].id : i \in 1..Len(ps.items)}

\* C21: enqueue during a drain is safe.  A pass that has read its snapshot keeps
\* it; an operation enqueued from then on is not in it, so that pass never
\* dispatches it; the pass deletes or updates only rows of its snapshot; and
\* the next pass to read a snapshot reads every row of the queue, whatever its
\* status, and dispatches each of them before it ends.
C21_EnqueueDuringDrain ==
  [][ \A p \in PassIds :
        LET ps == passes[p]
            inProgress == ps.pc \notin {"idle", "snapshot"}
        IN
        /\ (inProgress /\ passes'[p].pc # "idle") => passes'[p].items = ps.items
        /\ inProgress => \A x \in queue' : x.id \notin QueueIds => x.id \notin SnapshotIds(ps)
        /\ (inProgress /\ passes'[p] # ps)
             => \A x \in queue : x.id \notin SnapshotIds(ps) => x \in queue'
        /\ (ps.pc = "snapshot" /\ passes'[p] # ps /\ queue # {})
             => /\ SnapshotIds(passes'[p]) = QueueIds
                /\ passes'[p].idx = 1
        /\ (inProgress /\ passes'[p].idx # ps.idx)
             => (passes'[p].pc = "idle" /\ ps.idx = Len(ps.items))
                  \/ (passes'[p].pc # "idle" /\ passes'[p].idx = ps.idx + 1) ]_vars

\* a pass is still working on a snapshot that does not hold a queued operation
\* while a later pass has turned to that operation
C21_Witness ==
  \E p, q \in Active : \E x \in queue :
    /\ p # q
    /\ passes[p].pc \in {"call", "delete", "update"}
    /\ x.id \notin SnapshotIds(passes[p])
    /\ passes[q].pc = "call" /\ Item(passes[q]).id = x.id

\* a step of pass p: the promise it awaits settles
PassStep(p) ==
  \/ Snapshot(p)
  \/ \E o \in Outcomes : RemoteResolve(p, o)
  \/ DeleteDone(p)
  \/ UpdateDone(p)

\* C22: the stop function tears down only the trigger.  stop() leaves the
\* passes, the queue and the remote store as they are; from then on (until the
\* engine is started again) no pass begins; a pass that was in flight can still
\* take its next step, and it ends only after the last operation of its
\* snapshot.
C22_StopOnlyTrigger ==
  [][ /\ Stop => (passes' = passes /\ queue' = queue /\ remote' = remote /\ ~timer')
      /\ (stopped /\ stopped')
           => /\ drains' = drains
              /\ \A p \in PassIds : passes[p].pc = "idle" => passes'[p].pc = "idle"
      /\ stopped
           => \A p \in Active :
                /\ ENABLED PassStep(p)
                /\ (passes[p].pc # "snapshot" /\ passes'[p].pc = "idle")
                     => passes[p].idx = Len(passes[p].items)
                /\ (passes'[p].pc # "idle" /\ passes'[p].idx # passes[p].idx)
                     => passes'[p].idx = passes[p].idx + 1 ]_vars

\* the engine is stopped while a pass is suspended in the remote call of the
\* first of the two operations of its snapshot
C22_Witness ==
  /\ stopped /\ ~timer
  /\ \E p \in Active :
       passes[p].pc = "call" /\ passes[p].idx = 1 /\ Len(passes[p].items) = 2

\* C23: the operation vocabulary is closed: no operation the application
\* enqueues reaches the `Unknown op` branch of processOp, neither in a dispatch
\* nor as the recorded error of a queue row.
C23_NoUnknownOp ==
  /\ \A p \in PassIds : passes[p].err # "Unknown op"
  /\ \A x \in queue : x.lastError # "Unknown op"

\* C24: no double-processing: no two passes are working on the same
\* PendingOperation at the same time (no dispatch of an operation while another
\* dispatch of it is in flight, no delete or update of a row another pass is
\* processing), across the ticks of one engine and across stop and restart.
C24_NoDoubleProcessing ==
  \A p, q \in Active :
    (p # q /\ passes[p].pc \in {"call", "delete", "update"}
           /\ passes[q].pc \in {"call", "delete", "update"})
      => Item(passes[p]).id # Item(passes[q]).id

\* C25: convergence: whenever the queue is empty and neither a user action nor
\* a pass is in progress, the remote workout tables hold exactly the rows of the
\* local mirror (set_number and sort_order included).
C25_Convergence ==
  (queue = {} /\ Busy = {} /\ Active = {})
    => /\ remote.workout_sessions = mirror.localSessions
       /\ remote.workout_exercises = mirror.localExercises
       /\ remote.workout_sets = mirror.localSets

\* C26: replay order is insertion order: in the snapshot of every pass an
\* operation that was enqueued earlier (smaller id) comes before one enqueued
\* later, whatever their createdAt.
C26_InsertionOrder ==
  \A p \in Active :
    \A i, j \in 1..Len(passes[p].items) :
      i < j => passes[p].items[i].id < passes[p].items[j].id

\* C27: retry is indefinite and status is not a filter.  A row marked retry is
\* in the snapshot of every pass that reads the queue while it is there; a row
\* carries no attempt count and has no status besides queued and retry; a row
\* marked retry stays in the queue, marked retry, until a dispatch of it
\* succeeded (every remote call made for it took effect); and every dispatch
\* that ends in the retry handler adds one to the N of its pass.
C27_RetryUntilSuccess ==
  [][ /\ \A x \in queue' :
           /\ x.status \in {"queued", "retry"}
           /\ DOMAIN x = {"id", "createdAt", "op", "payload", "status", "lastError"}
      /\ \A x \in queue :
           x.status = "retry" =>
             /\ \A y \in queue' : y.id = x.id => y.status = "retry"
             /\ x.id \notin {y.id : y \in queue'} => x.id \in applied
             /\ \A p \in PassIds :
                  (passes[p].pc = "snapshot" /\ passes'[p] # passes[p])
                    => x.id \in SnapshotIds(passes'[p])
      /\ \A p \in PassIds :
           (passes'[p].pc = "update" /\ passes'[p] # passes[p])
             => passes'[p].failed = passes[p].failed + 1 ]_vars

\* a cascading or single delete without the id it addresses
MissingId(item) ==
  \/ item.op = "delete_set" /\ ~HasField(item.payload, "set_id")
  \/ item.op = "delete_exercise" /\ ~HasField(item.payload, "exercise_id")
  \/ item.op = "delete_session" /\ ~HasField(item.payload, "session_id")

\* the three messages of processOp
MissingIdMessages ==
  { "delete_set missing set_id", "delete_exercise missing exercise_id",
    "delete_session missing session_id" }

\* C28: a structural payload error is raised before any remote call: a pass
\* that turns to a delete without its id goes straight to the retry handler
\* with the error's message (it never awaits a remote call for it), the remote
\* store is unchanged, and the operation stays in the queue, marked retry with
\* that message as lastError.
C28_StructuralError ==
  [][ \A p \in PassIds :
        LET ps == passes[p]
            ps2 == passes'[p]
        IN
        /\ (ps2.pc \notin {"idle", "snapshot"} /\ MissingId(Item(ps2)))
             => /\ ps2.pc = "update" /\ ps2.call = 0
                /\ ps2.err \in MissingIdMessages
        /\ (ps.pc = "update" /\ MissingId(Item(ps)) /\ ps2 # ps)
             => /\ remote' = remote
                /\ \A x \in queue : x.id = Item(ps).id =>
                     \E y \in queue' :
                       /\ y.id = x.id /\ y.status = "retry" /\ y.lastError = ps.err
                       /\ y.op = x.op /\ y.payload = x.payload
        /\ (ps2 # ps /\ ps2.pc \notin {"idle", "snapshot"} /\ ps2.idx # ps.idx
              /\ MissingId(Item(ps2)))
             => remote' = remote ]_vars

\* delete_set without set_id was dispatched while the remote store held a set:
\* the set is still there and the operation is marked retry with the message
C28_Witness ==
  /\ remote.workout_sets # {}
  /\ \E x \in queue :
       /\ x.op = "delete_set" /\ ~HasField(x.payload, "set_id")
       /\ x.status = "retry" /\ x.lastError = "delete_set missing set_id"

\* the renumber_sets operations among the replayed ones
RenumberItems == {it \in ReplayItems : it.op = "renumber_sets"}

\* C29: remote renumbering is positional and absolute: after renumber_sets with
\* the list L was applied, the remote set with id L[i] (counting from 1) has
\* set_number i, every set not in L and every other table is as before, no row
\* was added or removed, and applying the operation again changes nothing.
C29_PositionalRenumber ==
  \A it \in RenumberItems :
    LET L == it.payload.ordered_set_ids
        ids == {L[i] : i \in 1..Len(L)}
        r2 == ProcessOp(remote, it)
    IN /\ \A i \in 1..Len(L) : \A x \in r2.workout_sets : x.id = L[i] => x.set_number = i
       /\ {x \in r2.workout_sets : x.id \notin ids} = {x \in remote.workout_sets : x.id \notin ids}
       /\ {x.id : x \in r2.workout_sets} = {x.id : x \in remote.workout_sets}
       /\ \A x \in r2.workout_sets : \E y \in remote.workout_sets :
            y.id = x.id /\ y.exercise_id = x.exercise_id
       /\ [r2 EXCEPT !.workout_sets = {}] = [remote EXCEPT !.workout_sets = {}]
       /\ ProcessOp(r2, it) = r2
       /\ ProcessOp(ProcessOp(r2, it), it) = r2

\* both sets are in the remote store in the order of the list <<T2, T1>>,
\* the reverse of the numbers they were inserted with
C29_Witness ==
  /\ \E x \in remote.workout_sets : x.id = "T2" /\ x.set_number = 1
  /\ \E x \in remote.workout_sets : x.id = "T1" /\ x.set_number = 2

\* the sort_order values of the exercises of session sid
SortOrders(sid) ==
  {x.sort_order : x \in MirrorWhere(mirror, "localExercises", "session_id", sid)}

\* C30: exercise ordinals are dense and 0-based: when no handler is in
\* progress, the sort_order values of the exercises of every session are
\* pairwise distinct and are 0..n-1.
C30_DenseSortOrder ==
  Busy = {} =>
    \A i \in DOMAIN SessionIds :
      LET rows == MirrorWhere(mirror, "localExercises", "session_id", SessionIds[i])
      IN SortOrders(SessionIds[i]) = 0..(Cardinality(rows) - 1)

\* C31: the fully-synced status is truthful: when a pass ends and reports
\* Synced, the queue is empty.
C31_SyncedMeansEmpty ==
  [][ \A p \in PassIds :
        (passes[p].pc # "idle" /\ passes'[p].pc = "idle" /\ status' = StatusSynced)
          => queue' = {} ]_vars

\* C32: delete_session is all-or-retry: a failed step of its remote cascade ends
\* the dispatch with nothing applied by that step, the failed operation stays in
\* the queue with status retry, and the operation is removed from the queue only
\* when the remote store holds no row of its session.
C32_DeleteSessionAllOrRetry ==
  [][ \A p \in PassIds :
        LET ps == passes[p]
            ps2 == passes'[p]
        IN (ps.pc \in {"call", "delete", "update"} /\ Item(ps).op = "delete_session" /\ ps2 # ps) =>
             /\ (ps.pc = "call" /\ ps.allOk /\ ~ps2.allOk) =>
                   (ps2.pc = "update" /\ ps2.idx = ps.idx /\ remote' = remote)
             /\ ps.pc = "update" =>
                   \A x \in queue : x.id = Item(ps).id =>
                      \E y \in queue' : y.id = x.id /\ y.status = "retry"
             /\ (ps.pc = "delete" /\ Item(ps).id \in QueueIds) =>
                   /\ Item(ps).id \notin {x.id : x \in queue'}
                   /\ \A r \in remote'.workout_sessions : r.id # Item(ps).payload.session_id ]_vars

\* the local mirror m holds the mutation that queue operation x describes
MirrorHolds(m, x) ==
  LET p == x.payload IN
  CASE x.op = "create_workout" -> p \in m.localSessions
    [] x.op = "insert_exercise" -> p \in m.localExercises
    [] x.op = "insert_set" -> p \in m.localSets
    [] x.op = "delete_set" -> \A s \in m.localSets : s.id # p.set_id
    [] x.op = "delete_session" ->
         /\ \A s \in m.localSessions : s.id # p.session_id
         /\ \A e \in m.localExercises : e.session_id # p.session_id
    [] x.op = "renumber_sets" ->
         \A i \in DOMAIN p.ordered_set_ids :
            \A s \in m.localSets : s.id = p.ordered_set_ids[i] => s.set_number = i
    [] OTHER -> FALSE

\* the operation handler act is about to enqueue
EnqueuePcs ==
  {"enqueue", "renumber", "enqueueSession", "enqueueExercise", "enqueueSet"}

PendingEnqueue(act) ==
  CASE act.pc = "renumber" ->
         [op |-> "renumber_sets",
          payload |-> [ordered_set_ids |->
                         [i \in 1..Len(act.remaining) |-> act.remaining[i].id]]]
    [] act.pc = "enqueueSession" \/ (act.pc = "enqueue" /\ act.fn = "createWorkoutSession") ->
         [op |-> "create_workout", payload |-> SessionRow(act.sessionId)]
    [] act.pc = "enqueueExercise" \/ (act.pc = "enqueue" /\ act.fn = "addExercise") ->
         [op |-> "insert_exercise",
          payload |-> ExerciseRow(act.exerciseId, act.sessionId, act.sort_order)]
    [] act.pc = "enqueueSet" \/ (act.pc = "enqueue" /\ act.fn = "addSet") ->
         [op |-> "insert_set", payload |-> SetRow(act.setId, act.exerciseId, act.set_number)]
    [] act.pc = "enqueue" /\ act.fn = "deleteSet" ->
         [op |-> "delete_set", payload |-> [set_id |-> act.setId]]
    [] OTHER ->
         [op |-> "delete_session", payload |-> [session_id |-> act.sessionId]]

\* C33: the queue is never ahead of the mirror: an operation is added to the queue
\* only by a handler suspended at its enqueue, and a handler gets there only in a
\* step after which the local mirror holds the mutation the operation describes;
\* a crash leaves no handler that could enqueue.
C33_MirrorBeforeQueue ==
  [][ /\ \A x \in queue' : x.id \notin QueueIds =>
            \E a \in ActIds :
               /\ acts[a].pc \in EnqueuePcs
               /\ PendingEnqueue(acts[a]) = [op |-> x.op, payload |-> x.payload]
               /\ acts'[a] # acts[a]
      /\ \A a \in ActIds :
            (acts'[a].pc \in EnqueuePcs /\ acts'[a] # acts[a]) =>
               MirrorHolds(mirror', PendingEnqueue(acts'[a])) ]_vars

\* the page was closed between the put of addSet and its enqueue: the mirror holds
\* a set no queued operation describes, next to a queued operation it does hold
C33_Witness ==
  /\ crashes = 1
  /\ \E x \in queue : x.op = "insert_exercise" /\ MirrorHolds(mirror, x)
  /\ \E s \in mirror.localSets : \A x \in queue : x.op = "insert_set" => x.payload.id # s.id

\* the pass is resuming from the pendingOps.update of its inner handler for row id
Marking(p, id) ==
  passes[p].pc = "update" /\ Item(passes[p]).id = id /\ passes'[p] # passes[p]

\* C34: lastError is never cleared: a row that carries a message keeps a message
\* and the retry status while it is in the queue, a failed dispatch writes its own
\* message over it, no other step changes it, and a row no dispatch has failed
\* has status queued and no lastError.
C34_LastErrorNeverCleared ==
  [][ /\ \A x \in queue, y \in queue' :
            (y.id = x.id /\ x.lastError # "") => (y.lastError # "" /\ y.status = "retry")
      /\ \A p \in PassIds : \A y \in queue' :
            Marking(p, y.id) => (y.lastError = passes[p].err /\ y.status = "retry")
      /\ \A x \in queue, y \in queue' :
            (y.id = x.id /\ ~\E p \in PassIds : Marking(p, x.id)) => y = x
      /\ \A y \in queue' : y.id \notin QueueIds => (y.status = "queued" /\ y.lastError = "")
      /\ \A y \in queue' : (y.status = "queued") <=> (y.lastError = "") ]_vars

\* a row that carries the message of an earlier failed dispatch, with a later
\* dispatch of it failed with another message that is about to be recorded
C34_Witness ==
  \E x \in queue, p \in PassIds :
     /\ x.status = "retry" /\ x.lastError # ""
     /\ passes[p].pc = "update" /\ Item(passes[p]).id = x.id
     /\ passes[p].err \notin {"", x.lastError}

====
